---- MODULE Spec2Model ----
(***************************************************************************)
(* Model of src/src/components/SearchForm.js: the custom error factory     *)
(* (create, helpers.parent, helpers.inherit), the two built-in error types *)
(* and the Block registry (constructor, get, raise, createAll, getBase).   *)
(*                                                                         *)
(* JavaScript values are records [k, s, n]: k is the kind, s a string      *)
(* payload, n a numeric payload (a type id for function values).           *)
(* Error types live in the heap `types`; the id of a type is its index,    *)
(* id 0 is the global Error, which has no `ce` record.                     *)
(***************************************************************************)
EXTENDS Naturals, Integers, Sequences, FiniteSets, TLC

VARIABLES
    types,      \* heap of created error types, in creation order
    errors,     \* the descriptor map handed to the Block (insertion ordered)
    block,      \* the Block object: own properties, the p record, its status
    last,       \* the outcome of the last operation
    errors0,    \* the descriptor map as the caller built it
    createAllReturns     \* how many createAll calls have returned without raising
                \* (counted up to 2)

vars == <<types, errors, block, last, errors0, createAllReturns>>

-----------------------------------------------------------------------------
(* Bounds of the model *)

MaxDecl == 2        \* descriptors in a descriptor map
MaxStack == 4       \* nested construct routine calls before the stack is exhausted
MaxUser == 2        \* types built directly with create/inherit in SpecF

-----------------------------------------------------------------------------
(* JavaScript values *)

VUndef == [k |-> "undef", s |-> "", n |-> 0]
VNull == [k |-> "null", s |-> "", n |-> 0]
VNum == [k |-> "number", s |-> "", n |-> 7]
VObj == [k |-> "obj", s |-> "p", n |-> 0]
VBool(b) == [k |-> "bool", s |-> "", n |-> IF b THEN 1 ELSE 0]
VStr(str) == [k |-> "str", s |-> str, n |-> 0]
VFn(id) == [k |-> "fn", s |-> "", n |-> id]
\* A construct routine: s is what it does, n tells apart the function
\* objects that do the same ("plain": sets a field from its first argument;
\* "chain": calls this.parent with its own arguments).
VRoutine(r) == [k |-> "routine", s |-> r, n |-> 0]
UserRoutine(r, id) == [k |-> "routine", s |-> r, n |-> id]
VMethod(m) == [k |-> "method", s |-> m, n |-> 0]

\* typeof v
TypeOf(v) ==
    CASE v.k \in {"fn", "routine", "method"} -> "function"
      [] v.k = "bool" -> "boolean"
      [] v.k = "str" -> "string"
      [] v.k = "undef" -> "undefined"
      [] v.k = "number" -> "number"
      [] OTHER -> "object"

\* ToBoolean(v)
Truthy(v) ==
    CASE v.k = "bool" -> v.n = 1
      [] v.k = "str" -> v.s # ""
      [] v.k \in {"undef", "null"} -> FALSE
      [] OTHER -> TRUE

\* "" + v, for the values that reach a string concatenation
ToStr(v) ==
    CASE v.k = "str" -> v.s
      [] v.k = "undef" -> "undefined"
      [] v.k = "null" -> "null"
      [] v.k = "bool" -> (IF v.n = 1 THEN "true" ELSE "false")
      [] OTHER -> "[object]"

IsNullish(v) == v.k \in {"undef", "null"}

-----------------------------------------------------------------------------
(* The factory: create, lines 43-89 *)

ErrorId == 0            \* global.Error
AbstractErrorId == 1    \* AbstractError, created at load (lines 133-143)
ErrorNotFoundId == 2    \* Block.ErrorNotFound, created at load (lines 308-318)

\* A function value that carries a ce record: a type made by create.
HasCe(f) == f.k = "fn" /\ f.n # ErrorId

\* parent = parent || global.Error   (line 47)
ParentOrError(parent) == IF Truthy(parent) THEN parent ELSE VFn(ErrorId)

\* lines 48-52: the default message of a new type
CreateMsgInheritsNothing(ts, p, defmessage) == defmessage

ResolveDefmessage(ts, p, defmessage) ==
    IF IsNullish(defmessage) /\ HasCe(p) THEN ts[p.n].defmessage ELSE defmessage

\* lines 53-59: the construct routine of a new type
ConstructInheritsNothing(ts, p, construct) ==
    IF TypeOf(construct) = "function" THEN construct ELSE VNull

ResolveConstruct(ts, p, construct) ==
    IF TypeOf(construct) = "function"
    THEN construct
    ELSE IF HasCe(p) /\ TypeOf(ts[p.n].construct) = "function"
         THEN ts[p.n].construct
         ELSE VNull

\* create(name, parent, defmessage, abstract, construct): the heap with the
\* new type appended; the new type's id is Len of the result.
\* argMsg and argConstruct record the arguments as passed.
Create(ts, name, parent, defmessage, abstract, construct) ==
    LET p == ParentOrError(parent)
    IN Append(ts, [name |-> name,
                   parent |-> p,
                   defmessage |-> ResolveDefmessage(ts, p, defmessage),
                   abstract |-> Truthy(abstract),
                   construct |-> ResolveConstruct(ts, p, construct),
                   argMsg |-> defmessage,
                   argConstruct |-> construct])

\* helpers.inherit (lines 118-124), both forms: create with parent = this
Inherit(ts, this, name, defmessage, abstract, construct) ==
    Create(ts, name, this, defmessage, abstract, construct)

\* The heap after the module is loaded: the two built-in types.
LoadedTypes ==
    Create(Create(<<>>, VStr("customErrors.AbstractError"), VUndef, VUndef,
                  VUndef, VRoutine("abstractCtor")),
           VStr("customErrors.ErrorNotFound"), VUndef, VUndef,
           VUndef, VRoutine("notFoundCtor"))

-----------------------------------------------------------------------------
(* Instances and construction: CustomError (lines 60-73), helpers.parent   *)
(* (lines 97-105) and the construct routines.                              *)
(*                                                                         *)
(* An instance records its type, its message as read through the prototype *)
(* chain, the errorname field and the log of construct routine runs.       *)
(* A result is [kind, inst]: kind "ret" (inst is the value) or "throw"     *)
(* (inst is the exception).                                                *)

\* The routines that call this.parent(...) with their own arguments.
ChainRoutines == {"chain"}

Arg(args, i) == IF Len(args) >= i THEN args[i] ELSE VUndef

\* A fresh object whose prototype is type t's: message is prototype.message
\* (line 77), an own property of the prototype even when undefined.
FreshInstance(ts, t) ==
    [k |-> "instance", type |-> t, message |-> ts[t].defmessage,
     errorname |-> VUndef, log |-> <<>>]

NativeError(kind) ==
    [k |-> kind, type |-> ErrorId, message |-> VStr(""),
     errorname |-> VUndef, log |-> <<>>]

Ret(inst) == [kind |-> "ret", inst |-> inst]
Throw(inst) == [kind |-> "throw", inst |-> inst]

RECURSIVE RunRoutine(_, _, _, _, _, _)
RECURSIVE ParentHelper(_, _, _, _)

\* helpers.parent, lines 97-105: this.constructor is the instance's type.
ParentHelperOfDefiner(ts, this, args, depth) == Ret(this)

ParentHelper(ts, this, args, depth) ==
    IF this.type = ErrorId
    THEN Ret(this)
    ELSE LET p == ts[this.type].parent
         IN IF HasCe(p) /\ TypeOf(ts[p.n].construct) = "function"
            THEN RunRoutine(ts, this, ts[p.n].construct, args, "parent", depth)
            ELSE Ret(this)

\* construct.apply(this, arguments) for routine r; depth counts the nested
\* routine calls, and a call beyond MaxStack exhausts the stack (the
\* RangeError keeps the log of the runs made until then).
RunRoutine(ts, this, r, args, via, depth) ==
    IF depth > MaxStack
    THEN Throw([NativeError("RangeError") EXCEPT !.log = this.log])
    ELSE LET logged == [this EXCEPT !.log =
                            Append(@, [routine |-> r, via |-> via, args |-> args])]
         IN CASE r.s = "abstractCtor" ->      \* lines 139-142
                   Ret([logged EXCEPT
                          !.errorname = Arg(args, 1),
                          !.message = VStr("Error " \o ToStr(Arg(args, 1))
                                           \o " is abstract")])
              [] r.s = "notFoundCtor" ->      \* lines 314-317
                   Ret([logged EXCEPT
                          !.errorname = Arg(args, 1),
                          !.message = VStr("Error " \o ToStr(Arg(args, 1))
                                           \o " is not found in block")])
              [] r.s \in ChainRoutines ->     \* this.parent.apply(this, arguments)
                   ParentHelper(ts, logged, args, depth + 1)
              [] OTHER ->                   \* a routine that only sets a field
                   Ret([logged EXCEPT !.errorname = Arg(args, 1)])

\* new Error(message) for the global Error
NewNative(args) ==
    [NativeError("Error") EXCEPT
        !.message = IF Arg(args, 1).k = "undef" THEN VStr("")
                    ELSE VStr(ToStr(Arg(args, 1)))]

\* The body of CustomError once the abstract test has passed (lines 66-72)
ConstructIgnoresRoutine(ts, t, args) ==
    IF IsNullish(Arg(args, 1))
    THEN Ret(FreshInstance(ts, t))
    ELSE Ret([FreshInstance(ts, t) EXCEPT !.message = Arg(args, 1)])

ConstructBody(ts, t, args) ==
    IF Truthy(ts[t].construct)
    THEN RunRoutine(ts, FreshInstance(ts, t), ts[t].construct, args, "ctor", 1)
    ELSE IF IsNullish(Arg(args, 1))
         THEN Ret(FreshInstance(ts, t))
         ELSE Ret([FreshInstance(ts, t) EXCEPT !.message = Arg(args, 1)])

\* new AbstractError(name), line 64: AbstractError is not abstract itself.
NewAbstractError(ts, name) == ConstructBody(ts, AbstractErrorId, <<name>>)

\* lines 63-65: the abstract test of CustomError
AbstractNeverThrows(ts, t) == FALSE

AbstractTest(ts, t) == ts[t].abstract

\* new T(args...) for the function value f
New(ts, f, args) ==
    CASE f.k = "fn" /\ f.n = ErrorId -> Ret(NewNative(args))
      [] f.k = "fn" /\ f.n # ErrorId ->
           IF AbstractTest(ts, f.n)
           THEN LET r == NewAbstractError(ts, ts[f.n].name)
                IN Throw(r.inst)
           ELSE ConstructBody(ts, f.n, args)
      [] OTHER ->   \* a Block method used as a constructor reads this.p of a
                    \* fresh object, which is undefined
           Throw(NativeError("TypeError"))

-----------------------------------------------------------------------------
(* The Block object.                                                       *)
(*                                                                         *)
(* own maps a property name to the Block's own property of that name       *)
(* (VAbsent: none); the cache of resolved types, `p` and `created` are all *)
(* own properties of the same object.  pobj is the record created at lines *)
(* 167-173, reached through the own property p.  A descriptor map is a     *)
(* sequence of [name, d] in insertion order; a descriptor d is             *)
(*   shape "bare":   the value ptr itself                                  *)
(*   shape "array":  [ptr, defmessage, abstract] (missing elements undef)  *)
(*   shape "object": {name, parent: ptr (when hasParent), defmessage,      *)
(*                    abstract, construct}                                 *)

VAbsent == [k |-> "absent", s |-> "", n |-> 0]

MethodNames == {"get", "raise", "createAll", "getBase"}

\* The names the model uses as property keys.
PropNames == {"A", "B", "Zed", "Base", "p", "created"} \cup MethodNames

\* Block.prototype (lines 189, 249, 261, 282, 300)
Proto(name) ==
    IF name \in MethodNames THEN VMethod(name)
    ELSE IF name = "created" THEN VBool(FALSE)
    ELSE VUndef

\* this[name]
This(own, name) == IF own[name].k = "absent" THEN Proto(name) ELSE own[name]

Keys(errs) == {errs[i].name : i \in 1..Len(errs)}
IndexOf(errs, name) == CHOOSE i \in 1..Len(errs) : errs[i].name = name
Descriptor(errs, name) == errs[IndexOf(errs, name)].d

\* A world: everything a Block operation reads or writes.
World(ts, errs, own, pobj) ==
    [types |-> ts, errors |-> errs, own |-> own, pobj |-> pobj]

Returned(w, val) ==
    [w |-> w, kind |-> "ret", val |-> val, inst |-> NativeError("none")]
Thrown(w, inst) ==
    [w |-> w, kind |-> "throw", val |-> VUndef, inst |-> inst]

\* throw new Block.ErrorNotFound(text)
ThrowNotFound(w, text) ==
    Thrown(w, New(w.types, VFn(ErrorNotFoundId), <<VStr(text)>>).inst)

\* getBase, lines 282-292
GetBaseKeepsString(w) ==
    LET base == w.pobj.base
    IN IF TypeOf(base) = "string"
       THEN LET ts == Create(w.types, VStr(w.pobj.prefix \o base.s),
                             VFn(ErrorId), VStr(""), VBool(TRUE), VUndef)
                made == VFn(Len(ts))
            IN Returned([w EXCEPT !.types = ts,
                                  !.own = [@ EXCEPT ![base.s] = made]],
                        made)
       ELSE Returned(w, base)

\* lines 286-289: the type ts has just been appended to the heap under the
\* string base name; this.p.base = base writes the p record only while
\* this.p still is that record
StoreBase(w, name, ts) ==
    Returned([w EXCEPT
                !.types = ts,
                !.own = [@ EXCEPT ![name] = VFn(Len(ts))],
                !.pobj = IF name # "p" /\ w.own["p"].k = "obj"
                         THEN [@ EXCEPT !.base = VFn(Len(ts))] ELSE @],
             VFn(Len(ts)))

GetBase(w) ==
    IF TypeOf(w.pobj.base) = "string"
    THEN StoreBase(w, w.pobj.base.s,
                   Create(w.types, VStr(w.pobj.prefix \o w.pobj.base.s),
                          VFn(ErrorId), VStr(""), VBool(TRUE), VUndef))
    ELSE Returned(w, w.pobj.base)

\* lines 207-222: the parameters and the parent reference of a descriptor.
\* stamped: the descriptor after `ptr.name = params.name` (object form).
Stamp(d, fullname) ==
    IF d.shape = "object" THEN [d EXCEPT !.name = VStr(fullname)] ELSE d

ParentRef(d) ==
    CASE d.shape = "bare" -> d.ptr
      [] d.shape = "array" -> d.ptr
      [] OTHER -> IF d.hasParent THEN d.ptr ELSE VBool(TRUE)

\* params after normalisation, before params.parent is set
Params(d, fullname) ==
    CASE d.shape = "bare" ->
           [name |-> VStr(fullname), defmessage |-> VUndef,
            abstract |-> VUndef, construct |-> VUndef]
      [] d.shape = "array" ->
           [name |-> VStr(fullname), defmessage |-> d.defmessage,
            abstract |-> d.abstract, construct |-> VUndef]
      [] OTHER ->
           [name |-> VStr(fullname), defmessage |-> d.defmessage,
            abstract |-> d.abstract, construct |-> d.construct]

SetEntry(errs, name, d) == [errs EXCEPT ![IndexOf(errs, name)].d = d]

\* lines 236-237 with params.parent = parent: for the object form the
\* assignment writes the caller's descriptor.
CreateParams(ts, prm, parent) ==
    Create(ts, prm.name, parent, prm.defmessage, prm.abstract, prm.construct)

\* this[name] = <the type just appended to ts>, and return it
StoreCreated(w, name, errs, ts) ==
    Returned([w EXCEPT !.types = ts, !.errors = errs,
                       !.own = [@ EXCEPT ![name] = VFn(Len(ts))]],
             VFn(Len(ts)))

CreateFromParams(w, name, d, parent) ==
    StoreCreated(w, name,
                 IF d.shape = "object"
                 THEN SetEntry(w.errors, name,
                               [Descriptor(w.errors, name) EXCEPT
                                   !.ptr = parent, !.hasParent = TRUE])
                 ELSE w.errors,
                 CreateParams(w.types, Params(d, w.pobj.prefix \o name), parent))

\* a parent was looked up (r); create the type under it unless the look-up
\* raised
CreateUnder(r, name, d) ==
    IF r.kind = "throw" THEN r ELSE CreateFromParams(r.w, name, d, r.val)

RECURSIVE GetRec(_, _, _)
RECURSIVE Dispatch(_, _, _, _, _)

\* lines 224-235: the dispatch on the parent reference ptr of descriptor d
Dispatch(w, name, d, ptr, depth) ==
    CASE TypeOf(ptr) = "function" ->                             \* 224-226
           Returned([w EXCEPT !.own = [@ EXCEPT ![name] = ptr]], ptr)
      [] TypeOf(ptr) = "boolean" ->                              \* 227-229
           IF Truthy(ptr)
           THEN CreateUnder(GetBase(w), name, d)
           ELSE CreateFromParams(w, name, d, VNull)
      [] TypeOf(ptr) = "string" ->                               \* 230-232
           CreateUnder(GetRec(w, ptr.s, depth + 1), name, d)
      [] OTHER ->                                                \* 233-234
           ThrowNotFound(w, "Error " \o w.pobj.prefix \o name
                            \o " is not found in the block")

\* lines 207-222 for the descriptor d0 found under name: the object form is
\* stamped with the full name in the caller's map
Normalise(w, name, d0, depth) ==
    IF d0.shape = "bare" /\ d0.ptr.k = "null"
    THEN Thrown(w, NativeError("TypeError"))           \* null.name = ..., 214
    ELSE Dispatch([w EXCEPT !.errors =
                      SetEntry(@, name, Stamp(d0, w.pobj.prefix \o name))],
                  name, Stamp(d0, w.pobj.prefix \o name),
                  ParentRef(d0), depth)

\* Block.prototype.get, lines 189-238.  depth counts the nested calls of
\* get; a chain of string parents longer than the map has entries runs
\* through a cycle and recurses until the stack is exhausted.
GetRec(w, name, depth) ==
    IF TypeOf(This(w.own, name)) = "function"
    THEN Returned(w, This(w.own, name))                          \* 194-196
    ELSE IF This(w.own, "p").k # "obj"
    THEN Thrown(w, NativeError("TypeError"))     \* errors is undefined, 201
    ELSE IF depth > Len(w.errors) + 1
    THEN Thrown(w, NativeError("RangeError"))
    ELSE IF name \notin Keys(w.errors)
    THEN IF w.pobj.base = VStr(name)
         THEN GetBase(w)                                          \* 202-204
         ELSE ThrowNotFound(w, w.pobj.prefix \o name)             \* 205
    ELSE Normalise(w, name, Descriptor(w.errors, name), depth)

Get(w, name) == GetRec(w, name, 1)

\* Block.prototype.raise, lines 249-252
ThrowNew(r, message) ==
    IF r.kind = "throw"
    THEN r
    ELSE Thrown(r.w, New(r.w.types, r.val, <<message>>).inst)

Raise(w, name, message) == ThrowNew(Get(w, name), message)

RECURSIVE CreateAllFrom(_, _, _)
RECURSIVE NextKey(_, _, _)

\* the loop of createAll, lines 267-271, over the keys captured at line 262
CreateAllFrom(w, keys, i) ==
    IF i > Len(keys)
    THEN Returned(w, VUndef)
    ELSE NextKey(Get(w, keys[i]), keys, i)

\* an exception of get leaves the loop
NextKey(r, keys, i) ==
    IF r.kind = "throw" THEN r ELSE CreateAllFrom(r.w, keys, i + 1)

KeySeq(errs) == [i \in 1..Len(errs) |-> errs[i].name]

\* line 262: the keys of this.p, none once this.p is no longer an object
\* with enumerable keys
OwnKeys(w) == IF This(w.own, "p").k = "obj" THEN KeySeq(w.errors) ELSE <<>>

\* line 272, reached when the loop raised nothing
MarkCreated(r) ==
    IF r.kind = "throw"
    THEN r
    ELSE Returned([r.w EXCEPT !.own = [@ EXCEPT !["created"] = VBool(TRUE)]],
                  VUndef)

\* createAll without the test of lines 264-266
CreateAllIgnoresCreated(w) == MarkCreated(CreateAllFrom(w, OwnKeys(w), 1))

\* Block.prototype.createAll, lines 261-273
CreateAll(w) ==
    IF Truthy(This(w.own, "created"))
    THEN Returned(w, VUndef)
    ELSE MarkCreated(CreateAllFrom(w, OwnKeys(w), 1))

\* lines 160-166: the base argument as stored
NormalBase(base) ==
    IF base.k \in {"undef", "null"} \/ base = VBool(TRUE) THEN VStr("Base")
    ELSE IF base = VBool(FALSE) THEN VFn(ErrorId)
    ELSE IF TypeOf(base) # "function" THEN VStr(ToStr(base))
    ELSE base

\* new Block(errors, namespace, base, lazy), lines 159-178
NewBlock(ts, errs, namespace, base, lazy) ==
    LET pobj == [namespace |-> namespace,
                 prefix |-> IF Truthy(namespace) THEN ToStr(namespace) \o "."
                            ELSE "",
                 base |-> NormalBase(base),
                 lazy |-> Truthy(lazy)]
        own == [n \in PropNames |->
                  IF n = "p" THEN VObj
                  ELSE IF n = "created" THEN VBool(FALSE)
                  ELSE VAbsent]
        w == World(ts, errs, own, pobj)
    IN IF pobj.lazy THEN Returned(w, VUndef) ELSE CreateAll(w)

-----------------------------------------------------------------------------
(* The inputs of the model *)

\* A type the caller built with create before building the descriptor map:
\* create("Ext", undefined, "ext", false, <a routine that sets a field>)
ExtId == 3
ExtTypes == Create(LoadedTypes, VStr("Ext"), VUndef, VStr("ext"), VBool(FALSE),
                   VRoutine("plain"))

Bare(v) ==
    [shape |-> "bare", ptr |-> v, hasParent |-> FALSE, defmessage |-> VUndef,
     abstract |-> VUndef, construct |-> VUndef, name |-> VUndef]
Arr(v, msg, abs) ==
    [shape |-> "array", ptr |-> v, hasParent |-> FALSE, defmessage |-> msg,
     abstract |-> abs, construct |-> VUndef, name |-> VUndef]
Obj(has, v, msg, abs, con) ==
    [shape |-> "object", ptr |-> v, hasParent |-> has, defmessage |-> msg,
     abstract |-> abs, construct |-> con, name |-> VUndef]

Entry(nm, d) == [name |-> nm, d |-> d]

\* The declarations a descriptor map is drawn from: every parent reference
\* (true, false, a declared or undeclared name, a function, absent, a
\* number) in each of the three shapes, and declarations under the base
\* name and under the names of the Block's own members.
Entries ==
    { Entry("A", Bare(VBool(TRUE))),
      Entry("A", Bare(VBool(FALSE))),
      Entry("A", Bare(VStr("B"))),
      Entry("A", Bare(VStr("A"))),
      Entry("A", Bare(VStr("Zed"))),
      Entry("A", Bare(VStr("get"))),
      Entry("A", Bare(VFn(ExtId))),
      Entry("A", Arr(VBool(TRUE), VStr("missing"), VUndef)),
      Entry("A", Arr(VBool(TRUE), VUndef, VBool(TRUE))),
      Entry("A", Arr(VStr("B"), VStr("bad input"), VUndef)),
      Entry("A", Arr(VFn(ExtId), VStr("wrapped"), VBool(TRUE))),
      Entry("A", Arr(VUndef, VUndef, VUndef)),
      Entry("A", Obj(TRUE, VBool(TRUE), VStr("object"), VUndef, VUndef)),
      Entry("A", Obj(TRUE, VStr("B"), VUndef, VUndef, UserRoutine("chain", 1))),
      Entry("A", Obj(TRUE, VFn(ExtId), VStr("wrapped"), VUndef, VUndef)),
      Entry("A", Obj(TRUE, VBool(FALSE), VUndef, VUndef, VUndef)),
      Entry("A", Obj(FALSE, VUndef, VStr("rootless"), VUndef, VUndef)),
      Entry("B", Bare(VBool(TRUE))),
      Entry("B", Bare(VStr("A"))),
      Entry("B", Obj(TRUE, VStr("A"), VStr("object"), VUndef, VUndef)),
      Entry("Base", Arr(VBool(FALSE), VStr("own"), VUndef)),
      Entry("created", Bare(VBool(TRUE))),
      Entry("p", Bare(VBool(TRUE))),
      Entry("get", Bare(VBool(TRUE))) }

DeclNames == {e.name : e \in Entries}
QueryNames == DeclNames \cup {"Zed"}
Messages == {VUndef, VStr("boom")}

RECURSIVE MapsOfLen(_)
MapsOfLen(n) ==
    IF n = 0 THEN {<<>>}
    ELSE {Append(m, e) : m \in MapsOfLen(n - 1), e \in Entries}

DistinctKeys(m) == Cardinality(Keys(m)) = Len(m)

Maps == UNION {{m \in MapsOfLen(n) : DistinctKeys(m)} : n \in 0..MaxDecl}

Bases == {VUndef, VBool(FALSE), VFn(ExtId)}

-----------------------------------------------------------------------------
(* The state machine *)

\* status: "none" before new Block, "live" once it has returned, "failed"
\* when it threw, "absent" in a run that builds no Block.
\* base0 keeps the base as the constructor stored it.
NoBlock ==
    [status |-> "none",
     own |-> [n \in PropNames |-> VAbsent],
     pobj |-> [namespace |-> VUndef, prefix |-> "", base |-> VUndef,
               lazy |-> FALSE],
     base0 |-> VUndef]

Bump(n) == IF n < 2 THEN n + 1 ELSE n

\* last: the operation, its name argument, how it ended (kind), the value
\* returned (get) or operated on (new: the type; raise: the message), the
\* exception thrown or instance built, and the arguments of a `new`.
NoOp ==
    [op |-> "none", name |-> "", kind |-> "ret", val |-> VUndef,
     inst |-> NativeError("none"), args |-> <<>>]

Outcome(op, name, r) ==
    [op |-> op, name |-> name, kind |-> r.kind, val |-> r.val, inst |-> r.inst,
     args |-> <<>>]

TheWorld == World(types, errors, block.own, block.pobj)

Install(r, status) ==
    /\ types' = r.w.types
    /\ errors' = r.w.errors
    /\ block' = [block EXCEPT !.status = status, !.own = r.w.own,
                              !.pobj = r.w.pobj]

Init ==
    /\ types = ExtTypes
    /\ errors \in Maps
    /\ errors0 = errors
    /\ block = NoBlock
    /\ last = NoOp
    /\ createAllReturns = 0

\* new Block(errors, "api", base, lazy)
Construct(base, lazy) ==
    /\ block.status = "none"
    /\ \E r \in {NewBlock(types, errors, VStr("api"), base, VBool(lazy))} :
          /\ types' = r.w.types
          /\ errors' = r.w.errors
          /\ block' = [status |-> IF r.kind = "throw" THEN "failed" ELSE "live",
                       own |-> r.w.own, pobj |-> r.w.pobj,
                       base0 |-> NormalBase(base)]
          /\ last' = Outcome("new Block", "", r)
          /\ createAllReturns' = IF ~lazy /\ r.kind = "ret" THEN 1 ELSE 0
    /\ UNCHANGED errors0

\* block.get(name)
DoGet(name) ==
    /\ block.status = "live"
    /\ \E r \in {Get(TheWorld, name)} :
          /\ Install(r, "live")
          /\ last' = Outcome("get", name, r)
    /\ UNCHANGED <<errors0, createAllReturns>>

\* block.raise(name, message)
DoRaise(name, message) ==
    /\ block.status = "live"
    /\ \E r \in {Raise(TheWorld, name, message)} :
          /\ Install(r, "live")
          /\ last' = [Outcome("raise", name, r) EXCEPT !.val = message,
                                                       !.args = <<message>>]
    /\ UNCHANGED <<errors0, createAllReturns>>

\* block.createAll()
DoCreateAll ==
    /\ block.status = "live"
    /\ \E r \in {CreateAll(TheWorld)} :
          /\ Install(r, "live")
          /\ last' = Outcome("createAll", "", r)
          /\ createAllReturns' = IF r.kind = "ret" THEN Bump(createAllReturns) ELSE createAllReturns
    /\ UNCHANGED errors0

\* new T(args) for a type T the caller holds: Ext or a type of the Block
DoNew(t, args) ==
    /\ block.status = "live"
    /\ t \in ExtId..Len(types)
    /\ LET r == New(types, VFn(t), args)
       IN last' = [op |-> "new", name |-> ToStr(types[t].name),
                   kind |-> r.kind, val |-> VFn(t), inst |-> r.inst,
                   args |-> args]
    /\ UNCHANGED <<types, errors, block, errors0, createAllReturns>>

Next ==
    \/ \E base \in Bases, lazy \in BOOLEAN : Construct(base, lazy)
    \/ \E name \in QueryNames : DoGet(name)
    \/ \E name \in Keys(errors) \cup {"Zed", "Base"}, message \in Messages :
          DoRaise(name, message)
    \/ DoCreateAll
    \/ \E t \in ExtId..Len(types), args \in {<<>>, <<VStr("boom")>>} :
          DoNew(t, args)

Spec == Init /\ [][Next]_vars

-----------------------------------------------------------------------------
(* The factory on its own: the caller builds chains of types with create   *)
(* and inherit and instantiates them.                                      *)

UserMessages == {VUndef, VNull, VStr(""), VStr("m1")}
UserAbstract == {VUndef, VBool(TRUE)}
\* the construct argument of the next create: none, or a function object
\* written for the new type
UserRoutines(ts) ==
    {VUndef, UserRoutine("plain", Len(ts) + 1), UserRoutine("chain", Len(ts) + 1)}
UserArgs == {<<>>, <<VStr("boom")>>, <<VNull>>}

UserName(ts) == VStr("T" \o ToString(Len(ts) + 1))

InitF ==
    /\ types = LoadedTypes
    /\ errors = <<>>
    /\ errors0 = <<>>
    /\ block = [NoBlock EXCEPT !.status = "absent"]
    /\ last = NoOp
    /\ createAllReturns = 0

Made(op, ts) ==
    [op |-> op, name |-> ToStr(ts[Len(ts)].name), kind |-> "ret",
     val |-> VFn(Len(ts)), inst |-> NativeError("none"), args |-> <<>>]

\* create(name, undefined, defmessage, abstract, construct)
DoCreate(defmessage, abstract, construct) ==
    /\ block.status = "absent"
    /\ Len(types) < Len(LoadedTypes) + MaxUser
    /\ types' = Create(types, UserName(types), VUndef, defmessage, abstract,
                       construct)
    /\ last' = Made("create", types')
    /\ UNCHANGED <<errors, block, errors0, createAllReturns>>

\* T.inherit(name, defmessage, abstract, construct) for a type T of the heap
DoInherit(t, defmessage, abstract, construct) ==
    /\ block.status = "absent"
    /\ Len(types) < Len(LoadedTypes) + MaxUser
    /\ t \in 1..Len(types)
    /\ types' = Inherit(types, VFn(t), UserName(types), defmessage, abstract,
                        construct)
    /\ last' = Made("inherit", types')
    /\ UNCHANGED <<errors, block, errors0, createAllReturns>>

\* new T(args) for a type T of the heap
DoNewF(t, args) ==
    /\ block.status = "absent"
    /\ t \in 1..Len(types)
    /\ LET r == New(types, VFn(t), args)
       IN last' = [op |-> "new", name |-> ToStr(types[t].name),
                   kind |-> r.kind, val |-> VFn(t), inst |-> r.inst,
                   args |-> args]
    /\ UNCHANGED <<types, errors, block, errors0, createAllReturns>>

NextF ==
    \/ \E m \in UserMessages, a \in UserAbstract, c \in UserRoutines(types) :
          DoCreate(m, a, c)
    \/ \E t \in 1..Len(types), m \in UserMessages, a \in UserAbstract,
          c \in UserRoutines(types) : DoInherit(t, m, a, c)
    \/ \E t \in 1..Len(types), args \in UserArgs : DoNewF(t, args)

SpecF == InitF /\ [][NextF]_vars

\* Both uses of the module: a run either builds a Block or uses the factory.
SpecAll == (Init \/ InitF) /\ [][Next \/ NextF]_vars

-----------------------------------------------------------------------------
(* Helpers of the properties *)

Live == block.status = "live"
Prefix == block.pobj.prefix

\* The Block holds an error type (a function value) under name n.
Cached(n) == block.own[n].k = "fn"

\* The name of the parent of type t: a type's name, or "Error" for the root.
ParentName(ts, t) ==
    IF HasCe(ts[t].parent) THEN ToStr(ts[ts[t].parent.n].name) ELSE "Error"

\* What a caller can observe of an error type.
Attrs(ts, f) ==
    IF HasCe(f)
    THEN [name |-> ToStr(ts[f.n].name), parent |-> ParentName(ts, f.n),
          defmessage |-> ts[f.n].defmessage, abstract |-> ts[f.n].abstract]
    ELSE [name |-> "Error", parent |-> "", defmessage |-> VStr(""),
          abstract |-> FALSE]

\* A lazy Block like the one of this run, freshly built from the map as the
\* caller wrote it.
FreshWorld ==
    NewBlock(ExtTypes, errors0, block.pobj.namespace, block.base0, VBool(TRUE)).w

-----------------------------------------------------------------------------
(* C1: once the Block holds a type under a name, which is what get(name)   *)
(* returns from then on, no later operation puts a different value under   *)
(* that name: two calls of get(name) that return, return the same type.    *)
C1_CacheEntryNeverReplaced ==
    [][\A n \in PropNames :
          (Live /\ Cached(n)) => block'.own[n] = block.own[n]]_vars

(* C2: get of a name that is neither declared nor the configured base name *)
(* raises ErrorNotFound carrying prefix + name.                            *)
C2_UnknownNameRaisesNotFound ==
    (/\ last.op = "get"
     /\ last.name \notin Keys(errors)
     /\ block.base0 # VStr(last.name))
    => (/\ last.kind = "throw"
        /\ last.inst.k = "instance"
        /\ last.inst.type = ErrorNotFoundId
        /\ last.inst.errorname = VStr(Prefix \o last.name))

(* C3: a createAll that follows a createAll that returned (the one of a    *)
(* non-lazy constructor included) returns and changes neither the heap of  *)
(* types, nor the descriptor map, nor the Block.                           *)
C3_CreateAllIdempotent ==
    [][(createAllReturns >= 1 /\ last'.op = "createAll")
         => (/\ last'.kind = "ret"
             /\ types' = types
             /\ errors' = errors
             /\ block' = block)]_vars

\* a second createAll has returned, on a Block with two resolved declarations
C3_Witness ==
    /\ createAllReturns = 2
    /\ last.op = "createAll"
    /\ Len(errors) = 2
    /\ \A n \in Keys(errors) : Cached(n)
    /\ Len(types) > Len(ExtTypes)

(* C4: when createAll has returned (called, or run by the constructor of a *)
(* non-lazy Block) every declared name has a cached error type.            *)
C4_CreateAllResolvesEveryName ==
    (/\ Live
     /\ last.op \in {"createAll", "new Block"}
     /\ last.kind = "ret"
     /\ (last.op = "new Block" => ~block.pobj.lazy))
    => \A n \in Keys(errors) : Cached(n)

(* C5: whatever the order of resolution, the type the Block holds for a    *)
(* declared name has the name, parent name, default message and abstract   *)
(* flag of the type a fresh lazy Block returns for get of that name.       *)
C5_ResolutionOrderIrrelevant ==
    Live =>
      \A n \in Keys(errors0) :
          LET f == Get(FreshWorld, n)
          IN (Cached(n) /\ f.kind = "ret" /\ f.val.k = "fn")
                => Attrs(types, block.own[n]) = Attrs(f.w.types, f.val)

(* C6: instantiating an abstract type throws AbstractError carrying the    *)
(* type's name whatever the arguments, and no construct routine of the     *)
(* type runs; instantiating a type that is not abstract never throws       *)
(* AbstractError, abstract ancestors or not.  The base type a Block makes  *)
(* from a string base is abstract and is named prefix + base.              *)
C6_AbstractAlwaysRaises ==
    /\ last.op = "new" =>
         LET t == last.val.n
         IN IF types[t].abstract
            THEN /\ last.kind = "throw"
                 /\ last.inst.k = "instance"
                 /\ last.inst.type = AbstractErrorId
                 /\ last.inst.errorname = types[t].name
                 /\ last.inst.log = <<[routine |-> VRoutine("abstractCtor"),
                                       via |-> "ctor",
                                       args |-> <<types[t].name>>]>>
            ELSE ~(last.kind = "throw" /\ last.inst.k = "instance"
                   /\ last.inst.type = AbstractErrorId)
    /\ (Live /\ block.base0.k = "str" /\ block.pobj.base.k = "fn") =>
         /\ types[block.pobj.base.n].abstract
         /\ types[block.pobj.base.n].name = VStr(Prefix \o block.base0.s)

\* an abstract type with a construct routine of its own was instantiated
\* with an argument
C6_Witness ==
    /\ last.op = "new"
    /\ types[last.val.n].abstract
    /\ Truthy(types[last.val.n].argConstruct)
    /\ last.args = <<VStr("boom")>>
    /\ last.kind = "throw"

\* a type that is not abstract, child of an abstract type, was instantiated
C6_WitnessChild ==
    /\ last.op = "new"
    /\ ~types[last.val.n].abstract
    /\ HasCe(types[last.val.n].parent)
    /\ types[types[last.val.n].parent.n].abstract
    /\ last.kind = "ret"

(* C7: raise(name, message) never returns; it leaves the state get(name)   *)
(* leaves, throws what get throws, and otherwise throws an instance of the *)
(* type get returns, named prefix + name, whose message is the argument,   *)
(* or the type's default message when the argument is null or undefined    *)
(* (for a type without construct routine).  Where the resolved type is     *)
(* abstract the instantiation is the one of C6: AbstractError carrying     *)
(* prefix + name.                                                          *)
C7_RaiseThrowsResolvedInstance ==
    [][(last'.op = "raise") =>
         LET g == Get(TheWorld, last'.name)
             msg == last'.args[1]
         IN /\ last'.kind = "throw"
            /\ types' = g.w.types
            /\ errors' = g.w.errors
            /\ block'.own = g.w.own
            /\ block'.pobj = g.w.pobj
            /\ IF g.kind = "throw"
               THEN last'.inst = g.inst
               ELSE /\ HasCe(g.val)
                    /\ types'[g.val.n].name = VStr(Prefix \o last'.name)
                    /\ last'.inst.k = "instance"
                    /\ IF types'[g.val.n].abstract
                       THEN /\ last'.inst.type = AbstractErrorId
                            /\ last'.inst.errorname = types'[g.val.n].name
                       ELSE /\ last'.inst.type = g.val.n
                            /\ ~Truthy(types'[g.val.n].construct) =>
                                  last'.inst.message =
                                     IF IsNullish(msg)
                                     THEN types'[g.val.n].defmessage
                                     ELSE msg]_vars

RECURSIVE NearestMessage(_, _)
\* the default message given explicitly by t or else by its nearest ancestor
NearestMessage(ts, t) ==
    IF ~IsNullish(ts[t].argMsg) THEN ts[t].argMsg
    ELSE IF HasCe(ts[t].parent) THEN NearestMessage(ts, ts[t].parent.n)
    ELSE ts[t].argMsg

(* C8: a type created without default message (omitted, null, undefined)   *)
(* has the default message of its parent type, hence of the nearest        *)
(* ancestor that was given one; a type given one keeps it.                 *)
C8_DefaultMessageInherited ==
    \A t \in 1..Len(types) :
        /\ types[t].defmessage = NearestMessage(types, t)
        /\ (IsNullish(types[t].argMsg) /\ HasCe(types[t].parent))
              => types[t].defmessage = types[types[t].parent.n].defmessage
        /\ ~IsNullish(types[t].argMsg) => types[t].defmessage = types[t].argMsg

\* a type without message of its own whose parent has none of its own
\* either, below an ancestor that was given a message
C8_Witness ==
    \E t \in 1..Len(types) :
        /\ IsNullish(types[t].argMsg)
        /\ HasCe(types[t].parent)
        /\ IsNullish(types[types[t].parent.n].argMsg)
        /\ types[t].defmessage.k = "str"
        /\ types[t].defmessage.s # ""

RECURSIVE NearestConstruct(_, _)
\* the construct routine given to t or else to its nearest ancestor
NearestConstruct(ts, t) ==
    IF TypeOf(ts[t].argConstruct) = "function" THEN ts[t].argConstruct
    ELSE IF HasCe(ts[t].parent) THEN NearestConstruct(ts, ts[t].parent.n)
    ELSE VNull

Runs(log, r) == Cardinality({i \in 1..Len(log) : log[i].routine = r})

(* C9: the construct routine of a type is the one given to it or else to   *)
(* its nearest ancestor (none when no ancestor has one), and instantiating *)
(* a type (not abstract) runs exactly that routine, once, with the         *)
(* constructor's arguments.                                                *)
C9_ConstructInheritedRunsOnce ==
    /\ \A t \in 1..Len(types) : types[t].construct = NearestConstruct(types, t)
    /\ (last.op = "new" /\ ~types[last.val.n].abstract) =>
         LET c == types[last.val.n].construct
         IN IF Truthy(c)
            THEN /\ Runs(last.inst.log, c) = 1
                 /\ last.inst.log[1] =
                      [routine |-> c, via |-> "ctor", args |-> last.args]
            ELSE last.inst.log = <<>>

\* the part of C9 about create alone
ConstructIsNearestAncestors ==
    \A t \in 1..Len(types) : types[t].construct = NearestConstruct(types, t)

(* C10: get of a declared name whose parent reference is a function        *)
(* returns a new type named prefix + name, child of that function, with    *)
(* the descriptor's default message and abstract flag, and not the         *)
(* function itself.                                                        *)
C10_FunctionParentMakesNewType ==
    (/\ last.op = "get"
     /\ last.name \in Keys(errors0)
     /\ TypeOf(ParentRef(Descriptor(errors0, last.name))) = "function")
    => LET d == Descriptor(errors0, last.name)
       IN /\ last.kind = "ret"
          /\ HasCe(last.val)
          /\ last.val # ParentRef(d)
          /\ types[last.val.n].name = VStr(Prefix \o last.name)
          /\ types[last.val.n].parent = ParentRef(d)
          /\ types[last.val.n].argMsg = Params(d, "").defmessage
          /\ types[last.val.n].abstract = Truthy(Params(d, "").abstract)

-----------------------------------------------------------------------------
\* The names of the Block's own members, which share the cache's namespace.
Members == MethodNames \cup {"p", "created"}

\* The descriptor, as the caller wrote it, says parent true / says false or
\* says nothing about the parent.
SaysTrue(d) ==
    /\ d.ptr = VBool(TRUE)
    /\ d.shape = "object" => d.hasParent
SaysFalseOrNothing(d) ==
    \/ d.shape \in {"bare", "array"} /\ d.ptr = VBool(FALSE)
    \/ d.shape = "array" /\ d.ptr = VUndef
    \/ d.shape = "object" /\ (~d.hasParent \/ d.ptr = VBool(FALSE))

(* C11: get of a declared name (the names of the Block's members aside)    *)
(* whose descriptor says parent true returns a type whose parent is the    *)
(* Block's base type; when the descriptor says false or gives no parent    *)
(* (ordered form without first element, object form without parent field)  *)
(* get returns a type whose parent is the root Error, raises nothing and    *)
(* creates no base type.                                                   *)
C11_BooleanOrAbsentParent ==
    [][(/\ last'.op = "get"
        /\ last'.name \in Keys(errors0) \ Members
        /\ block.own["p"].k = "obj")
       => LET d == Descriptor(errors0, last'.name)
              t == last'.val.n
          IN /\ SaysTrue(d) =>
                  /\ last'.kind = "ret"
                  /\ HasCe(last'.val)
                  /\ types'[t].parent = block'.pobj.base
             /\ SaysFalseOrNothing(d) =>
                  /\ last'.kind = "ret"
                  /\ HasCe(last'.val)
                  /\ types'[t].parent = VFn(ErrorId)
                  /\ block'.pobj.base = block.pobj.base]_vars

-----------------------------------------------------------------------------
\* The type whose create call was given routine r.
Definer(ts, r) == CHOOSE t \in 1..Len(ts) : ts[t].argConstruct = r

\* The routine of the nearest proper ancestor of t that was given one.
AncestorConstruct(ts, t) ==
    IF HasCe(ts[t].parent) THEN NearestConstruct(ts, ts[t].parent.n) ELSE VNull

(* C12: while an instance is constructed, a this.parent(args) call made by *)
(* the routine given to type T runs the routine of the nearest proper      *)
(* ancestor of T that was given one, with the same arguments, and runs     *)
(* nothing when no proper ancestor of T has one.                           *)
C12_ParentRunsAncestorOfDefiner ==
    (last.op = "new" /\ ~types[last.val.n].abstract) =>
      LET log == last.inst.log
      IN \A i \in 1..Len(log) :
           log[i].routine.s \in ChainRoutines =>
             LET up == AncestorConstruct(types, Definer(types, log[i].routine))
             IN IF Truthy(up)
                THEN /\ i < Len(log)
                     /\ log[i + 1] = [routine |-> up, via |-> "parent",
                                      args |-> log[i].args]
                ELSE i = Len(log)

RECURSIVE Depth(_, _)
\* The number of created types on the parent chain of t, t included.
Depth(ts, t) == IF HasCe(ts[t].parent) THEN 1 + Depth(ts, ts[t].parent.n) ELSE 1

(* C20: instantiating a type that is not abstract terminates (no stack     *)
(* exhaustion) and runs at most as many construct routines as the type's   *)
(* parent chain is deep, also when the type inherits a routine that calls  *)
(* this.parent.                                                            *)
C20_InstantiationTerminates ==
    (last.op = "new" /\ ~types[last.val.n].abstract) =>
        /\ last.kind = "ret"
        /\ last.inst.k = "instance"
        /\ Len(last.inst.log) <= Depth(types, last.val.n)

-----------------------------------------------------------------------------
\* The string parent reference of name n in map errs, "" when n is not
\* declared or its descriptor gives another kind of reference.
StringParent(errs, n) ==
    IF n \in Keys(errs) /\ ParentRef(Descriptor(errs, n)).k = "str"
          /\ (Descriptor(errs, n).shape = "object" => Descriptor(errs, n).hasParent)
    THEN ParentRef(Descriptor(errs, n)).s
    ELSE ""

RECURSIVE ChainFrom(_, _, _)
\* n followed by the names its string parent references lead through, at
\* most k + 1 names
ChainFrom(errs, n, k) ==
    IF k = 0 \/ StringParent(errs, n) = ""
    THEN <<n>>
    ELSE <<n>> \o ChainFrom(errs, StringParent(errs, n), k - 1)

Chain(errs, n) == ChainFrom(errs, n, Len(errs))
Reach(errs, n) == {Chain(errs, n)[i] : i \in 1..Len(Chain(errs, n))}

\* The string parent references from n run into a cycle.
Cyclic(errs, n) ==
    LET c == ChainFrom(errs, n, Len(errs) + 1)
    IN Len(c) = Len(errs) + 2

\* No error type is cached and none was created.
NothingResolved ==
    /\ types = ExtTypes
    /\ \A n \in PropNames : ~Cached(n)
    /\ block.own["created"] = VBool(FALSE)

(* C13: right after the construction of a lazy Block no error type exists  *)
(* (nothing cached, created false); a get(name) that returns on a lazy     *)
(* Block changes the cache only under name, under the names its string     *)
(* parent references lead through, and under the base name when one of     *)
(* those descriptors says parent true.                                     *)
C13_LazyResolvesOnlyWhatIsNeeded ==
    [][/\ (last'.op = "new Block" /\ block'.status = "live" /\ block'.pobj.lazy)
          => (/\ types' = types
              /\ \A n \in PropNames : block'.own[n].k # "fn"
              /\ block'.own["created"] = VBool(FALSE))
       /\ (last'.op = "get" /\ last'.kind = "ret" /\ block.pobj.lazy)
          => \A n \in PropNames :
                block'.own[n] # block.own[n] =>
                  \/ n \in Reach(errors0, last'.name)
                  \/ /\ block.base0 = VStr(n)
                     /\ \E m \in Reach(errors0, last'.name) \cap Keys(errors0) :
                           SaysTrue(Descriptor(errors0, m))]_vars

\* The same frame with the parent reference as get reads it (an object form
\* without parent field counting as true): holds.
LazyFrameOfEffectiveParent ==
    [][(last'.op = "get" /\ last'.kind = "ret" /\ block.pobj.lazy)
          => \A n \in PropNames :
                block'.own[n] # block.own[n] =>
                  \/ n \in Reach(errors0, last'.name)
                  \/ /\ block.base0 = VStr(n)
                     /\ \E m \in Reach(errors0, last'.name) \cap Keys(errors0) :
                           ParentRef(Descriptor(errors0, m)) = VBool(TRUE)]_vars

-----------------------------------------------------------------------------
\* A lazy Block with a string base on which nothing was resolved yet.
FreshLazy ==
    /\ Live
    /\ block.pobj.lazy
    /\ NothingResolved
    /\ block.pobj.base.k = "str"

\* The string parent references of n lead, through at least one other
\* name, to a declared descriptor that says parent true.
LeadsToTrue(errs, n) ==
    LET c == Chain(errs, n)
    IN /\ Len(c) >= 2
       /\ ~Cyclic(errs, n)
       /\ c[Len(c)] \in Keys(errs)
       /\ SaysTrue(Descriptor(errs, c[Len(c)]))

\* After the step the heap holds, above the types it held before, the base
\* type and then the types of chain c from its last name down to its
\* first, each the child of the one before, each cached under its name.
CreatedParentsFirst(c) ==
    LET n0 == Len(types)
        k == Len(c)
    IN /\ Len(types') = n0 + 1 + k
       /\ types'[n0 + 1].name = VStr(Prefix \o block.pobj.base.s)
       /\ types'[n0 + 1].abstract
       /\ types'[n0 + 1].defmessage = VStr("")
       /\ block'.own[block.pobj.base.s] = VFn(n0 + 1)
       /\ \A i \in 1..k :
             /\ types'[n0 + 1 + i].name = VStr(Prefix \o c[k + 1 - i])
             /\ types'[n0 + 1 + i].parent = VFn(n0 + i)
             /\ block'.own[c[k + 1 - i]] = VFn(n0 + 1 + i)
       /\ last'.kind = "ret"
       /\ last'.val = VFn(n0 + 1 + k)

(* C14: on a fresh lazy Block with a string base, one get(name) for a name *)
(* whose string parent references lead to a descriptor with parent true    *)
(* creates the base type first, then the ancestors from the one nearest    *)
(* the base down to name, each once, and leaves all of them cached.        *)
C14_ParentsFirst ==
    [][(FreshLazy /\ last'.op = "get" /\ LeadsToTrue(errors0, last'.name))
          => CreatedParentsFirst(Chain(errors0, last'.name))]_vars

\* The same, for chains that name none of the Block's members: holds.
ParentsFirstOffMembers ==
    [][(/\ FreshLazy /\ last'.op = "get" /\ LeadsToTrue(errors0, last'.name)
        /\ Reach(errors0, last'.name) \cap Members = {})
          => CreatedParentsFirst(Chain(errors0, last'.name))]_vars

-----------------------------------------------------------------------------
-----------------------------------------------------------------------------
(* C16: no operation of the Block changes the descriptor map the caller    *)
(* supplied: it has the keys and every descriptor has the fields and       *)
(* values it had when the Block was constructed.                           *)
C16_DescriptorMapUntouched == errors = errors0

-----------------------------------------------------------------------------
\* A second, lazy Block with namespace "web" and the base of the first,
\* constructed from the descriptor map errs.
OtherBlock(errs) ==
    NewBlock(types, errs, VStr("web"), block.base0, VBool(TRUE)).w

\* What a caller sees of the result r of a get.
Seen(r) ==
    IF r.kind = "throw"
    THEN [kind |-> "throw", inst |-> r.inst, type |-> Attrs(r.w.types, VFn(ErrorId))]
    ELSE [kind |-> "ret", inst |-> r.inst, type |-> Attrs(r.w.types, r.val)]

(* C17: a second Block constructed from the same descriptor map as the     *)
(* first answers every get as it does when nothing was ever done on the    *)
(* first Block: same outcome, and the same name, parent and default        *)
(* message of the type returned.                                           *)
C17_BlocksDoNotInterfere ==
    Live => \A n \in QueryNames :
               Seen(Get(OtherBlock(errors), n)) = Seen(Get(OtherBlock(errors0), n))

-----------------------------------------------------------------------------
\* The step was a get that raised ErrorNotFound.
GetRaisedNotFound ==
    /\ last'.op = "get"
    /\ last'.kind = "throw"
    /\ last'.inst.k = "instance"
    /\ last'.inst.type = ErrorNotFoundId

\* What a failed get and a failed createAll leave behind.
FailureLeavesUnresolved ==
    /\ GetRaisedNotFound =>
          \A m \in Reach(errors0, last'.name) : ~(block'.own[m].k = "fn")
    /\ (last'.op = "createAll" /\ last'.kind = "throw") =>
          /\ block'.own["created"] = VBool(FALSE)
          /\ \A n \in PropNames : Cached(n) => block'.own[n] = block.own[n]

(* C18: after a get(name) that raised ErrorNotFound neither name nor any   *)
(* name its string parent references lead through has a cache entry; after *)
(* a createAll that raised, the created flag is false (so that a later     *)
(* createAll runs the loop again) and what was cached stays cached.        *)
C18_FailureLeavesNameUnresolved == [][FailureLeavesUnresolved]_vars

\* The same on descriptor maps that declare none of the Block's members:
\* holds.
FailureLeavesUnresolvedOffMembers ==
    [][Keys(errors0) \cap Members = {} => FailureLeavesUnresolved]_vars

-----------------------------------------------------------------------------
\* The outcome in last' is a returned value or a raised ErrorNotFound.
ReturnedOrNotFound ==
    \/ last'.kind = "ret"
    \/ /\ last'.kind = "throw"
       /\ last'.inst.k = "instance"
       /\ last'.inst.type = ErrorNotFoundId

\* get and createAll end if and only if no cycle of string parent
\* references is reached.
EndsUnlessCyclic ==
    /\ last'.op = "get" =>
         IF Cyclic(errors0, last'.name)
         THEN /\ ~ReturnedOrNotFound
              /\ \A m \in Reach(errors0, last'.name) : ~(block'.own[m].k = "fn")
         ELSE /\ ReturnedOrNotFound
              /\ Len(types') <= Len(types) + Len(errors0) + 1
    /\ (last'.op = "createAll" /\ \A n \in Keys(errors0) : ~Cyclic(errors0, n))
          => ReturnedOrNotFound

(* C19: get(name) ends (returns a type or raises ErrorNotFound) exactly     *)
(* when the string parent references reachable from name run into no      *)
(* cycle, and createAll ends on a map without cycle; on a cycle get        *)
(* neither returns nor raises ErrorNotFound (the recursion exhausts the    *)
(* stack) and caches none of the names on the way.                         *)
C19_GetEndsUnlessCyclic == [][EndsUnlessCyclic]_vars

\* The same on descriptor maps that declare none of the Block's members:
\* holds.
EndsUnlessCyclicOffMembers ==
    [][Keys(errors0) \cap Members = {} => EndsUnlessCyclic]_vars

====
